---- MODULE Spec2Model ----
(***************************************************************************)
(* EPLMetadataGenerator (src/src/main.rs): the one-shot pipeline of main.  *)
(*                                                                         *)
(* Strings are sequences of one-character strings, so that split, parse    *)
(* and replace are computed as the code computes them.                     *)
(***************************************************************************)
EXTENDS Integers, Sequences, FiniteSets, TLC

(***************************************************************************)
(* Bounds of the model.                                                    *)
(***************************************************************************)
\* the longest <versions> list the metadata document holds
MaxVersions == 3

(***************************************************************************)
(* String primitives (std): split, parse::<i32>, replace.                  *)
(***************************************************************************)
Digits == {"0", "1", "2", "3", "4", "5", "6", "7", "8", "9"}

DigitVal(c) ==
    CASE c = "0" -> 0 [] c = "1" -> 1 [] c = "2" -> 2 [] c = "3" -> 3
      [] c = "4" -> 4 [] c = "5" -> 5 [] c = "6" -> 6 [] c = "7" -> 7
      [] c = "8" -> 8 [] c = "9" -> 9

\* TLC's integers are the i32 range themselves, so every sum and product
\* below is computed without leaving it
I32Max == 2147483647
I32Min == -2147483647 - 1

\* a + b on two i32: the wrapped sum, and whether it overflowed
CheckedAdd(a, b) ==
    IF b > 0 /\ a > I32Max - b
    THEN [val |-> (a - I32Max - 1) + (b - I32Max - 1), overflow |-> TRUE]
    ELSE IF b < 0 /\ a < I32Min - b
         THEN [val |-> (a + I32Max + 1) + (b + I32Max + 1), overflow |-> TRUE]
         ELSE [val |-> a + b, overflow |-> FALSE]

NoOverflow(v) == [val |-> v, overflow |-> FALSE]

\* d * b for a digit d and an i32 b, by repeated addition
RECURSIVE DigitMul(_, _)
DigitMul(d, b) ==
    IF d = 0 THEN NoOverflow(0)
    ELSE LET less == DigitMul(d - 1, b)
             sum  == CheckedAdd(less.val, b)
         IN  [val |-> sum.val, overflow |-> less.overflow \/ sum.overflow]

\* 10 * v as v + v, doubled twice more, plus v + v
TimesTen(v) ==
    LET x2  == CheckedAdd(v, v)
        x4  == CheckedAdd(x2.val, x2.val)
        x8  == CheckedAdd(x4.val, x4.val)
        x10 == CheckedAdd(x8.val, x2.val)
    IN  [val |-> x10.val,
         overflow |-> x2.overflow \/ x4.overflow \/ x8.overflow \/ x10.overflow]

\* w * b for a weight w >= 0 and an i32 b: the wrapped product, and whether
\* it overflowed.  Digit by digit of w: every partial product has the sign
\* of b and no greater magnitude than the product, so one of them overflows
\* exactly when the product does.
RECURSIVE CheckedMul(_, _)
CheckedMul(w, b) ==
    IF w = 0 THEN NoOverflow(0)
    ELSE LET rest  == CheckedMul(w \div 10, b)
             tens  == TimesTen(rest.val)
             units == DigitMul(w % 10, b)
             sum   == CheckedAdd(tens.val, units.val)
         IN  [val |-> sum.val,
              overflow |-> rest.overflow \/ tens.overflow \/ units.overflow
                           \/ sum.overflow]

\* s.split(sep): the pieces of s between the occurrences of the character sep
RECURSIVE SplitFrom(_, _, _, _)
SplitFrom(s, sep, i, cur) ==
    IF i > Len(s) THEN <<cur>>
    ELSE IF s[i] = sep THEN <<cur>> \o SplitFrom(s, sep, i + 1, <<>>)
    ELSE SplitFrom(s, sep, i + 1, Append(cur, s[i]))

Split(s, sep) == SplitFrom(s, sep, 1, <<>>)

Last(q) == q[Len(q)]

\* the value of a digit string, or -1 when it exceeds limit
RECURSIVE DigitsValue(_, _, _)
DigitsValue(s, acc, limit) ==
    IF s = <<>> THEN acc
    ELSE LET d == DigitVal(Head(s))
         IN  IF acc > (limit - d) \div 10 THEN -1
             ELSE DigitsValue(Tail(s), 10 * acc + d, limit)

\* str::parse::<i32>(): an optional sign, then one or more digits, in range
ParseI32(s) ==
    LET signed == s # <<>> /\ Head(s) \in {"+", "-"}
        negative == signed /\ Head(s) = "-"
        body   == IF signed THEN Tail(s) ELSE s
        wellFormed == body # <<>> /\ \A i \in 1..Len(body) : body[i] \in Digits
        \* the magnitude of i32::MIN is one more than i32::MAX: -2147483648
        \* is the one string this reads as out of range and Rust parses
        mag    == IF wellFormed THEN DigitsValue(body, 0, I32Max) ELSE -1
    IN  IF mag >= 0
        THEN [ok |-> TRUE, val |-> IF negative THEN 0 - mag ELSE mag]
        ELSE [ok |-> FALSE, val |-> 0]

\* format.replace("{}", with): every occurrence of the two characters {}
RECURSIVE ReplacePlaceholder(_, _)
ReplacePlaceholder(fmt, with) ==
    IF fmt = <<>> THEN <<>>
    ELSE IF Len(fmt) >= 2 /\ fmt[1] = "{" /\ fmt[2] = "}"
         THEN with \o ReplacePlaceholder(SubSeq(fmt, 3, Len(fmt)), with)
         ELSE <<Head(fmt)>> \o ReplacePlaceholder(Tail(fmt), with)

(***************************************************************************)
(* The environment: what the metadata document may publish.                *)
(***************************************************************************)
\* a <version/> element without text: Node::text() is None
NoText == <<>>

V_1_2_a_1      == <<"1", ".", "2", "-", "a", ".", "1">>
V_1_2_a_2      == <<"1", ".", "2", "-", "a", ".", "2">>
V_1_2_b_2      == <<"1", ".", "2", "-", "b", ".", "2">>
V_1_2          == <<"1", ".", "2">>
V_1_2_0_client == <<"1", ".", "2", ".", "0", "-", "c", "l", "i", "e", "n", "t">>
V_1_2_1_client == <<"1", ".", "2", ".", "1", "-", "c", "l", "i", "e", "n", "t">>
V_1_3_0        == <<"1", ".", "3", ".", "0">>
V_1_0_4000     == <<"1", ".", "0", ".", "4", "0", "0", "0">>
V_2148_0       == <<"2", "1", "4", "8", ".", "0">>
V_7            == <<"7">>

\* the version texts a document given to the resolver is made of
ResolverPool ==
    { V_1_2_a_1, V_1_2_a_2, V_1_2_b_2, V_1_2, V_1_2_0_client, V_1_2_1_client,
      V_1_3_0, V_1_0_4000, V_2148_0, V_7, NoText }

\* the documents given to the resolver: every list of up to MaxVersions of
\* these texts
ResolverDocuments == UNION { [1..n -> ResolverPool] : n \in 0..MaxVersions }

\* the versions the repository of a whole run has published, in the order
\* it lists them
Published ==
    <<V_1_2_a_1, V_1_2_a_2, V_1_2_0_client, V_1_2_1_client, V_1_3_0>>

\* the elements of a list at the places chosen, in the order of the list
RECURSIVE Chosen(_, _)
Chosen(list, places) ==
    IF places = {} THEN <<>>
    ELSE LET first == CHOOSE i \in places : \A j \in places : i <= j
         IN  <<list[first]>> \o Chosen(list, places \ {first})

\* the documents a whole run may be answered: up to MaxVersions of the
\* published versions, in the order they were published
PipelineDocuments ==
    { Chosen(Published, places) :
        places \in { c \in SUBSET (1..Len(Published)) : Cardinality(c) <= MaxVersions } }

\* args[2], the download URL format
authlib_download_url_format == <<"u", "/", "{", "}", "/", "{", "}", ".", "j">>

\* args[3]
injector_download_url == <<"i", "n", "j">>

(***************************************************************************)
(* The version table loop, main.rs lines 58-75.                            *)
(***************************************************************************)
\* line 61: full_version.split('-')[0]
AuthlibVersion(full_version) == Split(full_version, "-")[1]

\* lines 64-65: split('.').last().parse::<i32>()
PatchNumber(full_version) == ParseI32(Last(Split(full_version, ".")))

\* HashMap::insert (after the remove of line 68, or on a vacant key)
MapInsert(map, key, value) ==
    [k \in (DOMAIN map) \cup {key} |-> IF k = key THEN value ELSE map[k]]

EmptyMap == [k \in {} |-> <<>>]

\* a slip of line 67: a tie evicts too
SupersedesOrTies(new_patch_number, existing_patch_number) ==
    new_patch_number >= existing_patch_number

\* line 67
Supersedes(new_patch_number, existing_patch_number) ==
    new_patch_number > existing_patch_number

\* one iteration of the loop of lines 59-75 on one <version> element
ResolveEntry(map, text) ==
    IF text = NoText THEN [panic |-> TRUE, map |-> map]
    ELSE
      LET authlib_version == AuthlibVersion(text)
      IN  IF authlib_version \in DOMAIN map
          THEN LET existing == PatchNumber(map[authlib_version])
                   new      == PatchNumber(text)
               IN  IF ~existing.ok \/ ~new.ok
                   THEN [panic |-> TRUE, map |-> map]
                   ELSE IF Supersedes(new.val, existing.val)
                        THEN [panic |-> FALSE,
                              map |-> MapInsert(map, authlib_version, text)]
                        ELSE [panic |-> FALSE, map |-> map]
          ELSE [panic |-> FALSE, map |-> MapInsert(map, authlib_version, text)]

(***************************************************************************)
(* The ordering of the keys, main.rs lines 77-89.                          *)
(***************************************************************************)
MajorWeight == 1000000
MinorWeight == 1000

\* the closure of lines 78-89 on one key: the score, or a panic.  With
\* overflow checks (a debug build) an overflowing * or += panics, without
\* them (a release build) it wraps.
Score(x, overflow_checks) ==
    LET version_numbers == Split(x, ".")
    IN  IF Len(version_numbers) < 2 THEN [panic |-> TRUE, val |-> 0]
        ELSE
          LET major == ParseI32(version_numbers[1])
              minor == ParseI32(version_numbers[2])
              patch == IF Len(version_numbers) > 2
                       THEN ParseI32(version_numbers[3])
                       ELSE [ok |-> TRUE, val |-> 0]
              s1 == CheckedMul(MajorWeight, major.val)
              m2 == CheckedMul(MinorWeight, minor.val)
              s2 == CheckedAdd(s1.val, m2.val)
              s3 == CheckedAdd(s2.val, patch.val)
              overflow == s1.overflow \/ m2.overflow \/ s2.overflow \/ s3.overflow
          IN  IF ~major.ok \/ ~minor.ok \/ ~patch.ok
              THEN [panic |-> TRUE, val |-> 0]
              ELSE IF overflow /\ overflow_checks
                   THEN [panic |-> TRUE, val |-> 0]
                   ELSE [panic |-> FALSE, val |-> s3.val]

\* every order a set may be listed in
RECURSIVE Orders(_)
Orders(S) ==
    IF S = {} THEN { <<>> }
    ELSE UNION { { <<x>> \o rest : rest \in Orders(S \ {x}) } : x \in S }

\* HashMap::keys().collect(): the keys in any order the hasher may give
KeyOrders(map) == Orders(DOMAIN map)

\* a slip of line 88: the score without Reverse
KeyBeforeAscending(a, b) == a < b

\* Reverse(score): a sorts before b
KeyBefore(a, b) == a > b

\* the closure of lines 78-89 on every key of the map
Scores(map, overflow_checks) ==
    [k \in DOMAIN map |-> Score(k, overflow_checks)]

\* a slip of lines 78-89: the keys left in the hasher's order
UnsortedKeys(q, scores) == q

\* slice::sort_by_key, given what the closure returns for each key.  The
\* sort is stable: an element comes after those whose key sorts before its
\* own and after those of an equal key that stood before it.
SortByKey(q, scores) ==
    LET n     == Len(q)
        key   == [i \in 1..n |-> scores[q[i]].val]
        place == [i \in 1..n |->
                    1 + Cardinality({ j \in 1..n : KeyBefore(key[j], key[i]) })
                      + Cardinality({ j \in 1..(i - 1) :
                                        /\ ~KeyBefore(key[j], key[i])
                                        /\ ~KeyBefore(key[i], key[j]) })]
    IN  [p \in 1..n |-> q[CHOOSE i \in 1..n : place[i] = p]]

\* the closure runs only when there is something to compare, and then on
\* every key
SortPanics(scores) ==
    Cardinality(DOMAIN scores) >= 2 /\ \E k \in DOMAIN scores : scores[k].panic

(***************************************************************************)
(* The artifact fetches and the output document, main.rs lines 91-142.     *)
(***************************************************************************)
\* what the network may answer to one request
FetchOutcomes == {"success", "status_error", "transport_error"}

\* the body served with a success status, and with an error status
ArtifactBody(full_version) == <<"jar", full_version>>
ErrorPageBody == <<"error page">>

\* hex::encode(Sha1::digest(bytes)) and bytes.len(), as functions of the bytes
Sha1Hex(bytes) == <<"sha1", bytes>>
ByteLen(bytes) == <<"len", bytes>>

\* send().await: an Err only when no response arrives; a response with an
\* error status is an Ok
SendResult(outcome) == IF outcome = "transport_error" THEN "Err" ELSE "Ok"

\* line 101
ArtifactName(full_version) == <<"by.ely:authlib:">> \o full_version

Pending == [kind |-> "Pending"]

\* the future of lines 94-106, run to completion against one outcome
FetchArtifact(version, full_version, outcome) ==
    LET url   == ReplacePlaceholder(authlib_download_url_format, full_version)
        bytes == IF outcome = "success" THEN ArtifactBody(full_version)
                 ELSE ErrorPageBody
    IN  IF SendResult(outcome) = "Err"
        THEN [kind |-> "Err", why |-> version]
        ELSE [kind |-> "Ok",
              target_version |-> version,
              name |-> ArtifactName(full_version),
              url |-> url,
              sha1 |-> Sha1Hex(bytes),
              size |-> ByteLen(bytes)]

\* a slip of line 109: the outputs in the order the futures completed in
JoinInCompletionOrder(outputs, completed) ==
    [i \in 1..Len(completed) |-> outputs[completed[i]]]

\* join_all: the outputs in the order of the futures, whatever the order
\* they completed in
JoinAll(outputs, completed) == outputs

\* a slip of lines 123-126: break instead of continue, so that an Err ends
\* the loop
RECURSIVE CollectUntilError(_)
CollectUntilError(metadatas) ==
    IF metadatas = <<>> THEN <<>>
    ELSE LET m == Head(metadatas)
         IN  IF m.kind = "Ok"
             THEN <<[key |-> m.target_version, name |-> m.name, url |-> m.url,
                     sha1 |-> m.sha1, size |-> m.size]>>
                  \o CollectUntilError(Tail(metadatas))
             ELSE <<>>

\* lines 113-128: the entries of overrides, in insertion order
RECURSIVE CollectOverrides(_)
CollectOverrides(metadatas) ==
    IF metadatas = <<>> THEN <<>>
    ELSE LET m == Head(metadatas)
         IN  IF m.kind = "Ok"
             THEN <<[key |-> m.target_version, name |-> m.name, url |-> m.url,
                     sha1 |-> m.sha1, size |-> m.size]>>
                  \o CollectOverrides(Tail(metadatas))
             ELSE CollectOverrides(Tail(metadatas))

\* lines 123-126: one line on stderr for each Err
RECURSIVE CollectWarnings(_)
CollectWarnings(metadatas) ==
    IF metadatas = <<>> THEN <<>>
    ELSE LET m == Head(metadatas)
         IN  IF m.kind = "Err"
             THEN <<<<"Couldn't create library metadata", m.why>>>>
                  \o CollectWarnings(Tail(metadatas))
             ELSE CollectWarnings(Tail(metadatas))

NoFile == [written |-> FALSE]

(***************************************************************************)
(* The state of one run of main.                                           *)
(***************************************************************************)
VARIABLES
    pc,                 \* the place main has reached
    metadata_request,   \* "idle", "in_flight", "done"
    metadata_outcome,   \* "none", or what the metadata URL answered
    metadata_versions,  \* line 53
    processed,          \* how many elements the loop of line 59 has taken
    authlib_versions_to_full_versions,  \* line 58
    authlib_versions,   \* line 77
    fetch_state,        \* per future of line 91: "created", "in_flight", "done"
    responses,          \* per future: "none", or what its URL answered
    outputs,            \* per future: its output once it completed
    completed,          \* the futures in the order they completed
    authlib_metadatas,  \* line 109
    overrides,          \* line 112, the entries in insertion order
    extras,             \* json["extras"], empty or the injector entry
    injector_download,  \* the future of line 45: "none", "created", "in_flight", "done"
    injector_result,    \* "none", "Ok", "Err"
    output_file,        \* the file at args[4]
    writes,             \* how many times fs::write ran
    stderr,             \* the lines printed with eprintln!
    exit_status         \* "running", "success" (main returned), "panic"

vars == <<pc, metadata_request, metadata_outcome,
          metadata_versions, processed,
          authlib_versions_to_full_versions, authlib_versions, fetch_state,
          responses, outputs, completed, authlib_metadatas, overrides, extras,
          injector_download, injector_result, output_file, writes, stderr,
          exit_status>>

resolverVars == <<metadata_versions, processed,
                  authlib_versions_to_full_versions, authlib_versions>>
fetchVars == <<fetch_state, responses, outputs, completed, authlib_metadatas, overrides>>
probeVars == <<injector_download, injector_result, extras>>
exitVars == <<output_file, writes, stderr, exit_status>>

Init ==
    /\ pc = "args"
    /\ metadata_request = "idle"
    /\ metadata_outcome = "none"
    /\ metadata_versions = <<>>
    /\ processed = 0
    /\ authlib_versions_to_full_versions = EmptyMap
    /\ authlib_versions = <<>>
    /\ fetch_state = <<>>
    /\ responses = <<>>
    /\ outputs = <<>>
    /\ completed = <<>>
    /\ authlib_metadatas = <<>>
    /\ overrides = <<>>
    /\ extras = <<>>
    /\ injector_download = "none"
    /\ injector_result = "none"
    /\ output_file = NoFile
    /\ writes = 0
    /\ stderr = <<>>
    /\ exit_status = "running"

\* a failed expect() or unwrap(): the message on stderr, exit status 101
Panic(message) ==
    /\ pc' = "done"
    /\ stderr' = Append(stderr, <<"panic", message>>)
    /\ exit_status' = "panic"
    /\ UNCHANGED <<output_file, writes>>

\* lines 26-35: too few arguments print the usage and return
CheckArgs ==
    /\ pc = "args"
    /\ \E enough \in BOOLEAN :
         IF enough
         THEN /\ pc' = "create_probe"
              /\ UNCHANGED exitVars
         ELSE /\ pc' = "done"
              /\ stderr' = Append(stderr, <<"usage", <<>>>>)
              /\ exit_status' = "success"
              /\ UNCHANGED <<output_file, writes>>
    /\ UNCHANGED <<metadata_request, metadata_outcome, resolverVars, fetchVars, probeVars>>

\* line 45: the future is made and not polled; a future does nothing until
\* it is awaited
CreateInjectorDownload ==
    /\ pc = "create_probe"
    /\ injector_download' = "created"
    /\ pc' = "send_metadata"
    /\ UNCHANGED <<metadata_request, metadata_outcome, resolverVars, fetchVars,
                   injector_result, extras, exitVars>>

\* line 47: the metadata request goes out
SendMetadata ==
    /\ pc = "send_metadata"
    /\ metadata_request' = "in_flight"
    /\ pc' = "await_metadata"
    /\ UNCHANGED <<metadata_outcome, resolverVars, fetchVars,
                   probeVars, exitVars>>

MetadataOutcomes ==
    {"ok", "transport_error", "text_error", "parse_error", "missing_path"}

\* lines 47-56: the answer, its text, the parse and the element path; the
\* document answered is one of documents
ReceiveMetadata(documents) ==
    /\ pc = "await_metadata"
    /\ metadata_request' = "done"
    /\ \E outcome \in MetadataOutcomes :
         /\ metadata_outcome' = outcome
         /\ IF outcome = "ok"
            THEN /\ metadata_versions' \in documents
                 /\ pc' = "resolve"
                 /\ UNCHANGED exitVars
            ELSE /\ Panic(outcome)
                 /\ UNCHANGED metadata_versions
    /\ UNCHANGED <<processed, authlib_versions_to_full_versions,
                   authlib_versions, fetchVars, probeVars>>

\* lines 59-75: one iteration of the loop
ResolveStep ==
    /\ pc = "resolve"
    /\ processed < Len(metadata_versions)
    /\ LET r == ResolveEntry(authlib_versions_to_full_versions,
                             metadata_versions[processed + 1])
       IN  IF r.panic
           THEN /\ Panic("version")
                /\ UNCHANGED <<processed, authlib_versions_to_full_versions>>
           ELSE /\ processed' = processed + 1
                /\ authlib_versions_to_full_versions' = r.map
                /\ UNCHANGED <<pc, exitVars>>
    /\ UNCHANGED <<metadata_request, metadata_outcome, metadata_versions,
                   authlib_versions, fetchVars, probeVars>>

\* lines 77-89: the keys, in the hasher's order, sorted by the score
SortVersions ==
    /\ pc = "resolve"
    /\ processed = Len(metadata_versions)
    /\ \E overflow_checks \in BOOLEAN :
         \E scores \in { Scores(authlib_versions_to_full_versions, overflow_checks) } :
            IF SortPanics(scores)
            THEN /\ Panic("score")
                 /\ UNCHANGED authlib_versions
            ELSE /\ \E keys \in KeyOrders(authlib_versions_to_full_versions) :
                      authlib_versions' = SortByKey(keys, scores)
                 /\ pc' = "make_futures"
                 /\ UNCHANGED exitVars
    /\ UNCHANGED <<metadata_request, metadata_outcome, metadata_versions, processed,
                   authlib_versions_to_full_versions, fetchVars, probeVars>>

\* lines 91-107: one future per key, made and not polled
MakeFutures ==
    /\ pc = "make_futures"
    /\ fetch_state' = [i \in 1..Len(authlib_versions) |-> "created"]
    /\ responses' = [i \in 1..Len(authlib_versions) |-> "none"]
    /\ outputs' = [i \in 1..Len(authlib_versions) |-> Pending]
    /\ pc' = "join_all"
    /\ UNCHANGED <<metadata_request, metadata_outcome, resolverVars, completed,
                   authlib_metadatas, overrides, probeVars, exitVars>>

\* line 109: join_all polls every future, and every request goes out
StartFetches ==
    /\ pc = "join_all"
    /\ fetch_state' = [i \in 1..Len(fetch_state) |-> "in_flight"]
    /\ pc' = "await_join"
    /\ UNCHANGED <<metadata_request, metadata_outcome, resolverVars, responses, outputs, completed,
                   authlib_metadatas, overrides, probeVars, exitVars>>

\* one of the requests in flight is answered
CompleteFetch(i) ==
    /\ pc = "await_join"
    /\ fetch_state[i] = "in_flight"
    /\ \E outcome \in FetchOutcomes :
         /\ responses' = [responses EXCEPT ![i] = outcome]
         /\ outputs' = [outputs EXCEPT ![i] =
                         FetchArtifact(authlib_versions[i],
                                       authlib_versions_to_full_versions[authlib_versions[i]],
                                       outcome)]
    /\ fetch_state' = [fetch_state EXCEPT ![i] = "done"]
    /\ completed' = Append(completed, i)
    /\ UNCHANGED <<pc, metadata_request, metadata_outcome, resolverVars,
                   authlib_metadatas, overrides, probeVars, exitVars>>

\* a slip of line 109: select_all in place of join_all, which resolves with
\* the first future that completes
JoinAny ==
    /\ pc = "await_join"
    /\ \E i \in 1..Len(fetch_state) : fetch_state[i] = "done"
    /\ authlib_metadatas' = JoinAll(outputs, completed)
    /\ pc' = "assemble"
    /\ UNCHANGED <<metadata_request, metadata_outcome, resolverVars, fetch_state,
                   responses, outputs, completed, overrides, probeVars, exitVars>>

\* line 109: join_all resolves once every future has completed
JoinDone ==
    /\ pc = "await_join"
    /\ \A i \in 1..Len(fetch_state) : fetch_state[i] = "done"
    /\ authlib_metadatas' = JoinAll(outputs, completed)
    /\ pc' = "assemble"
    /\ UNCHANGED <<metadata_request, metadata_outcome, resolverVars, fetch_state,
                   responses, outputs, completed, overrides, probeVars, exitVars>>

\* lines 111-130
AssembleOverrides ==
    /\ pc = "assemble"
    /\ overrides' = CollectOverrides(authlib_metadatas)
    /\ stderr' = stderr \o CollectWarnings(authlib_metadatas)
    /\ pc' = "await_probe"
    /\ UNCHANGED <<metadata_request, metadata_outcome, resolverVars, fetch_state,
                   responses, outputs, completed, authlib_metadatas, probeVars,
                   output_file, writes, exit_status>>

\* line 132: the first poll of the future of line 45 sends the request
PollInjectorDownload ==
    /\ pc = "await_probe"
    /\ injector_download = "created"
    /\ injector_download' = "in_flight"
    /\ UNCHANGED <<pc, metadata_request, metadata_outcome, resolverVars, fetchVars,
                   injector_result, extras, exitVars>>

\* lines 132-140
ReceiveInjector ==
    /\ pc = "await_probe"
    /\ injector_download = "in_flight"
    /\ injector_download' = "done"
    /\ \E outcome \in FetchOutcomes :
         IF SendResult(outcome) = "Ok"
         THEN /\ injector_result' = "Ok"
              /\ extras' = <<[key |-> "authlib-injector",
                              value |-> injector_download_url]>>
              /\ pc' = "write"
              /\ UNCHANGED exitVars
         ELSE /\ injector_result' = "Err"
              /\ stderr' = Append(stderr, <<"Couldn't retrieve authlib-injector", <<>>>>)
              /\ pc' = "done"
              /\ exit_status' = "success"
              /\ UNCHANGED <<extras, output_file, writes>>
    /\ UNCHANGED <<metadata_request, metadata_outcome, resolverVars, fetchVars>>

\* line 142, and the return of main
WriteOutput ==
    /\ pc = "write"
    /\ writes' = writes + 1
    /\ \E write_ok \in BOOLEAN :
         IF write_ok
         THEN /\ output_file' = [written |-> TRUE, overrides |-> overrides,
                                 extras |-> extras]
              /\ stderr' = stderr
              /\ exit_status' = "success"
         ELSE /\ output_file' = output_file
              /\ stderr' = Append(stderr, <<"panic", "write">>)
              /\ exit_status' = "panic"
    /\ pc' = "done"
    /\ UNCHANGED <<metadata_request, metadata_outcome, resolverVars, fetchVars, probeVars>>

\* main up to the answer of the metadata URL
Front ==
    \/ CheckArgs
    \/ CreateInjectorDownload
    \/ SendMetadata

\* lines 58-89
Resolve ==
    \/ ResolveStep
    \/ SortVersions

\* main up to the sorted key list, on any document of the resolver's
Resolver ==
    \/ Front
    \/ ReceiveMetadata(ResolverDocuments)
    \/ Resolve

\* main, on a document of the published versions
Next ==
    \/ Front
    \/ ReceiveMetadata(PipelineDocuments)
    \/ Resolve
    \/ MakeFutures
    \/ StartFetches
    \/ \E i \in 1..Len(fetch_state) : CompleteFetch(i)
    \/ JoinDone
    \/ AssembleOverrides
    \/ PollInjectorDownload
    \/ ReceiveInjector
    \/ WriteOutput

Spec == Init /\ [][Next]_vars

ResolverSpec == Init /\ [][Resolver]_vars

(***************************************************************************)
(* The claims about the resolver, checked under ResolverSpec.              *)
(***************************************************************************)
V_1_3   == <<"1", ".", "3">>
V_1_2_0 == <<"1", ".", "2", ".", "0">>
V_1_2_1 == <<"1", ".", "2", ".", "1">>

\* the elements the loop has taken that share the Short Version k
Sharing(k) ==
    { i \in 1..processed : AuthlibVersion(metadata_versions[i]) = k }

\* every element the loop has taken ends in an integer after its last dot
IntegerPatches ==
    \A i \in 1..processed :
        /\ metadata_versions[i] # NoText
        /\ PatchNumber(metadata_versions[i]).ok

PatchAt(i) == PatchNumber(metadata_versions[i]).val

\* C1: after the loop has taken any number of Full Versions, each ending in
\* an integer after its last dot, the keys of the table are exactly their
\* Short Versions, and each key maps to the Full Version with the largest
\* such integer among those sharing the key, the first of them in document
\* order when several share the largest.
C1_VersionTableKeepsFirstMaximum ==
    IntegerPatches =>
        /\ DOMAIN authlib_versions_to_full_versions
             = { AuthlibVersion(metadata_versions[i]) : i \in 1..processed }
        /\ \A k \in DOMAIN authlib_versions_to_full_versions :
             \E i \in Sharing(k) :
                /\ authlib_versions_to_full_versions[k] = metadata_versions[i]
                /\ \A j \in Sharing(k) :
                      \/ PatchAt(j) < PatchAt(i)
                      \/ (PatchAt(j) = PatchAt(i) /\ i <= j)

\* C1's case: a lower patch was evicted, and a later tie was discarded
C1_Witness ==
    /\ processed = 3
    /\ metadata_versions = <<V_1_2_a_1, V_1_2_a_2, V_1_2_b_2>>
    /\ authlib_versions_to_full_versions[V_1_2] = V_1_2_a_2

C2_Input == <<V_1_2_0_client, V_1_2_1_client, V_1_3_0>>

\* the resolver is through with the document C2 names
C2_Resolved ==
    /\ metadata_versions = C2_Input
    /\ pc \in {"make_futures", "done"}

\* C2 as the spec states it: for ["1.2.0-client", "1.2.1-client", "1.3.0"]
\* the table is {"1.2": "1.2.1-client", "1.3": "1.3.0"} and the ordered list
\* is ["1.3", "1.2"].
C2_Original ==
    C2_Resolved =>
        /\ exit_status = "running"
        /\ authlib_versions_to_full_versions
             = (V_1_2 :> V_1_2_1_client @@ V_1_3 :> V_1_3_0)
        /\ authlib_versions = <<V_1_3, V_1_2>>

\* C2 as amended: the Short Version is the text before the first hyphen, so
\* for ["1.2.0-client", "1.2.1-client", "1.3.0"] the table is
\* {"1.2.0": "1.2.0-client", "1.2.1": "1.2.1-client", "1.3.0": "1.3.0"} and
\* the ordered list is ["1.3.0", "1.2.1", "1.2.0"].
C2_Amended ==
    C2_Resolved =>
        /\ exit_status = "running"
        /\ authlib_versions_to_full_versions
             = (V_1_2_0 :> V_1_2_0_client @@ V_1_2_1 :> V_1_2_1_client
                @@ V_1_3_0 :> V_1_3_0)
        /\ authlib_versions = <<V_1_3_0, V_1_2_1, V_1_2_0>>

C2_Witness == C2_Resolved /\ pc = "make_futures"

\* the components of a Short Version, when there are two or three and each
\* is a non-negative integer; a missing patch is 0
Components(x) ==
    LET parts == Split(x, ".")
        nums  == [i \in 1..Len(parts) |-> ParseI32(parts[i])]
    IN  IF /\ Len(parts) \in {2, 3}
           /\ \A i \in 1..Len(parts) : nums[i].ok /\ nums[i].val >= 0
        THEN [ok |-> TRUE, major |-> nums[1].val, minor |-> nums[2].val,
              patch |-> IF Len(parts) = 3 THEN nums[3].val ELSE 0]
        ELSE [ok |-> FALSE, major |-> 0, minor |-> 0, patch |-> 0]

\* (major, minor, patch) of a is lexicographically greater than that of b
VersionGreater(a, b) ==
    \/ a.major > b.major
    \/ (a.major = b.major /\ a.minor > b.minor)
    \/ (a.major = b.major /\ a.minor = b.minor /\ a.patch > b.patch)

\* C3: in the sorted list, a Short Version whose (major, minor, patch) is
\* lexicographically greater than another's stands before it, whatever the
\* size of the components.
C3_Original ==
    pc = "make_futures" =>
        \A i, j \in 1..Len(authlib_versions) :
            LET a == Components(authlib_versions[i])
                b == Components(authlib_versions[j])
            IN  (a.ok /\ b.ok /\ VersionGreater(a, b)) => i < j

\* the key the sort of a run that did not panic used
KeyOf(x) == Score(x, FALSE).val

\* what the closure returned for each key in a run that did not panic
RunScores == Scores(authlib_versions_to_full_versions, FALSE)

\* C4 as the spec states it: no two Short Versions of the table have equal
\* ordering keys, and whatever order the hash map yields its keys in, the
\* sorted list is the one this run made.
C4_Original ==
    pc = "make_futures" =>
        /\ \A a, b \in DOMAIN authlib_versions_to_full_versions :
              a # b => KeyOf(a) # KeyOf(b)
        /\ \A q \in KeyOrders(authlib_versions_to_full_versions) :
              SortByKey(q, RunScores) = authlib_versions

\* the list q holds the keys of the table, each once, and no key stands
\* before one with a greater ordering key
OrderedByKey(q, scores) ==
    /\ Len(q) = Cardinality(DOMAIN scores)
    /\ { q[i] : i \in 1..Len(q) } = DOMAIN scores
    /\ \A i, j \in 1..Len(q) :
          i < j => scores[q[i]].val >= scores[q[j]].val

\* C4 as amended: whatever order the hash map yields its keys in, two Short
\* Versions with different ordering keys stand in the same relative order,
\* the greater key first; only Short Versions with equal keys (such as "1.2"
\* and "1.2.0") may change places from one run to another.
C4_Amended ==
    pc = "make_futures" =>
        LET scores == RunScores
        IN  /\ OrderedByKey(authlib_versions, scores)
            /\ \A q \in KeyOrders(authlib_versions_to_full_versions) :
                  OrderedByKey(SortByKey(q, scores), scores)

\* C4's case: two keys tie and a third does not
C4_Witness ==
    /\ pc = "make_futures"
    /\ DOMAIN authlib_versions_to_full_versions = {V_1_2, V_1_2_0, V_1_3_0}
    /\ authlib_versions = <<V_1_3_0, V_1_2_0, V_1_2>>

(***************************************************************************)
(* The claims about the whole run, checked under Spec.                     *)
(***************************************************************************)
\* the loop of lines 113-128 has run: main awaits the probe, which it polls
\* nowhere before
Assembled == pc = "await_probe" \/ injector_download \in {"in_flight", "done"}

Futures == 1..Len(fetch_state)

FullVersionOf(version) == authlib_versions_to_full_versions[version]

\* the URL the format "u/{}/{}.j" gives for a Full Version
ExpectedUrl(full_version) ==
    <<"u", "/">> \o full_version \o <<"/">> \o full_version \o <<".", "j">>

\* C5: once the results are merged, overrides holds one entry for each Short
\* Version whose fetch gave Ok and none for the others, each entry with the
\* name by.ely:authlib:<Full Version> and the URL of its own Full Version;
\* and once the probe gave Ok, main goes on to write the file with these
\* overrides, however many fetches failed.
C5_FailedFetchesAreIsolated ==
    /\ Assembled =>
         /\ { overrides[n].key : n \in 1..Len(overrides) }
              = { authlib_versions[i] : i \in { j \in Futures : outputs[j].kind = "Ok" } }
         /\ \A n, m \in 1..Len(overrides) :
              overrides[n].key = overrides[m].key => n = m
         /\ \A n \in 1..Len(overrides) :
              /\ overrides[n].name
                   = <<"by.ely:authlib:">> \o FullVersionOf(overrides[n].key)
              /\ overrides[n].url = ExpectedUrl(FullVersionOf(overrides[n].key))
    /\ injector_result = "Ok" =>
         /\ pc \in {"write", "done"}
         /\ pc = "done" => writes = 1
         /\ (pc = "done" /\ exit_status = "success") =>
              /\ output_file.written
              /\ output_file.overrides = overrides

\* C5's case: the file is written although one fetch failed and before and
\* after it others succeeded
C5_Witness ==
    /\ pc = "done"
    /\ output_file.written
    /\ Len(outputs) = 3
    /\ outputs[1].kind = "Ok"
    /\ outputs[2].kind = "Err"
    /\ outputs[3].kind = "Ok"
    /\ Len(output_file.overrides) = 2

\* the warning of line 124 for the future i is on stderr
Warned(i) ==
    \E n \in 1..Len(stderr) :
        stderr[n] = <<"Couldn't create library metadata", authlib_versions[i]>>

\* C6: a fetch answered with a non-success status, like one that ends with
\* a transport error, is a failed fetch: it gives Err, it is reported on
\* stderr, and overrides has no entry for its Short Version.
C6_Original ==
    Assembled =>
        \A i \in Futures :
            responses[i] \in {"status_error", "transport_error"} =>
                /\ outputs[i].kind = "Err"
                /\ Warned(i)
                /\ \A n \in 1..Len(overrides) : overrides[n].key # authlib_versions[i]

\* C7: when the injector probe fails, no output file is created and the
\* process does not end with the success exit status.
C7_Original ==
    (pc = "done" /\ injector_result = "Err") =>
        /\ ~output_file.written
        /\ exit_status # "success"

\* C8: the probe request is sent before the metadata request, so it is in
\* flight (or answered) whenever the metadata request or an artifact request
\* has been sent.
C8_Original ==
    (metadata_request # "idle" \/ \E i \in Futures : fetch_state[i] # "created")
        => injector_download \in {"in_flight", "done"}

MetadataFailures == MetadataOutcomes \ {"ok"}

\* C9: fs::write runs at most once and nothing runs after it; it runs only
\* when the metadata was fetched and parsed, every artifact fetch has
\* completed and the probe gave Ok; no artifact request is sent before the
\* metadata answer; and a metadata failure ends the run with a panic, no
\* artifact future made and nothing written.
C9_WriteBarrier ==
    /\ writes <= 1
    /\ output_file.written => writes = 1
    /\ writes = 1 => (pc = "done" /\ ~ENABLED Next)
    /\ (pc = "write" \/ writes = 1) =>
         /\ metadata_request = "done"
         /\ metadata_outcome = "ok"
         /\ processed = Len(metadata_versions)
         /\ Len(fetch_state) = Len(authlib_versions)
         /\ \A i \in Futures : fetch_state[i] = "done" /\ outputs[i].kind # "Pending"
         /\ injector_download = "done"
         /\ injector_result = "Ok"
    /\ (\E i \in Futures : fetch_state[i] # "created") =>
         (metadata_request = "done" /\ metadata_outcome = "ok")
    /\ metadata_outcome \in MetadataFailures =>
         /\ pc = "done"
         /\ exit_status = "panic"
         /\ fetch_state = <<>>
         /\ writes = 0
         /\ ~output_file.written

\* C9's case: the file is written after three fetches, one of them failed
C9_Witness ==
    /\ writes = 1
    /\ output_file.written
    /\ Len(fetch_state) = 3
    /\ \E i \in Futures : outputs[i].kind = "Err"

\* the place of a Short Version in the sorted list
PlaceOf(version) ==
    CHOOSE i \in 1..Len(authlib_versions) : authlib_versions[i] = version

\* C10: whatever order the fetches complete in, the entries of overrides
\* stand in the order of the sorted list of Short Versions (so by descending
\* ordering key), one for each future that gave Ok, and the file written
\* holds them in that order.
C10_OverridesInResolverOrder ==
    Assembled =>
        LET place == [n \in 1..Len(overrides) |-> PlaceOf(overrides[n].key)]
            key   == [n \in 1..Len(overrides) |-> KeyOf(overrides[n].key)]
        IN  /\ Len(overrides)
                 = Cardinality({ i \in Futures : outputs[i].kind = "Ok" })
            /\ \A n \in 1..Len(overrides) :
                  /\ overrides[n].key \in DOMAIN authlib_versions_to_full_versions
                  /\ outputs[place[n]].kind = "Ok"
                  /\ overrides[n].sha1 = outputs[place[n]].sha1
            /\ \A n, m \in 1..Len(overrides) :
                  n < m => (place[n] < place[m] /\ key[n] >= key[m])
            /\ output_file.written => output_file.overrides = overrides

\* C10's case: the last future completed first and the first one last, and
\* the file holds all three entries
C10_Witness ==
    /\ output_file.written
    /\ completed = <<3, 2, 1>>
    /\ Len(output_file.overrides) = 3

====
